---- MODULE Spec2Model ----
(***************************************************************************)
(* Model of src/handler.py: the RunPod serverless handler that stages the  *)
(* input media, submits a fixed ComfyUI job graph, polls the engine and    *)
(* returns the newest matching output video.                               *)
(*                                                                         *)
(* Strings that the code inspects character by character (input values)    *)
(* are sequences of one-character strings.  Bytes are integers 0..255.     *)
(* Python values of a job input are wrapped by type: [str |-> s],          *)
(* [bool |-> b], [num |-> n]; an absent key reads as None.                 *)
(***************************************************************************)
EXTENDS Integers, Sequences, FiniteSets, TLC

VARIABLES
    pc,          \* position of the worker inside handler()
    event,       \* the event of the running invocation
    inputDir,    \* INPUT_DIR: file name -> [bytes |-> content], or NoFile
    outputDir,   \* OUTPUT_DIR: set of files [name, ctime, mtime, job]
    fsclock,     \* the file system's clock
    invocation,  \* number of handler invocations started so far
    prompt_id,   \* run_comfyui_workflow's prompt_id (0: none yet)
    elapsed,     \* time.time() - start_time inside the poll loop
    engineJob,   \* the engine's state of the prompt it accepted last
    history,     \* the engine's history: the prompt ids it has finished
    posted,      \* the graph this invocation POSTed to /prompt (NoGraph: none)
    polled,      \* whether this invocation has sent a GET /history request
    staged,      \* input files this invocation has written
    submitted,   \* what POST /prompt answered this invocation (NoAnswer: none)
    lastPoll,    \* what the last history poll of this invocation answered
    looked,      \* whether this invocation has globbed OUTPUT_DIR
    output_file, \* the file handler chose to return (NoChoice: none)
    raised,      \* the exception caught by handler's except clause
    result       \* what handler returned (NoResult: still running)

vars == <<pc, event, inputDir, outputDir, fsclock, invocation, prompt_id,
          elapsed, engineJob, history, posted, polled, staged, submitted,
          lastPoll, looked, output_file, raised, result>>

(***************************************************************************)
(* Bounds of the model.                                                    *)
(***************************************************************************)
MaxInvocations == 2   \* handler invocations in one behaviour
MaxWrites == 1        \* files the engine writes for one prompt

(***************************************************************************)
(* Python values.                                                          *)
(***************************************************************************)
None == [none |-> TRUE]
S(s) == [str |-> s]
B(b) == [bool |-> b]
N(n) == [num |-> n]
D(d) == [dict |-> d]

IsStr(v) == "str" \in DOMAIN v
IsDict(v) == "dict" \in DOMAIN v

\* Python truthiness, as used by `or`, `not` and `if`.
Truthy(v) ==
    CASE "none" \in DOMAIN v -> FALSE
      [] "str"  \in DOMAIN v -> v.str # <<>>
      [] "bool" \in DOMAIN v -> v.bool
      [] "num"  \in DOMAIN v -> v.num # 0
      [] "dict" \in DOMAIN v -> DOMAIN v.dict # {}

\* a or b
PyOr(a, b) == IF Truthy(a) THEN a ELSE b

\* dict.get(key) and dict.get(key, default)
Get(d, k) == IF k \in DOMAIN d THEN d[k] ELSE None
GetDefault(d, k, default) == IF k \in DOMAIN d THEN d[k] ELSE default

(***************************************************************************)
(* base64, as the standard library computes it.                            *)
(***************************************************************************)
B64Alphabet ==
    << "A","B","C","D","E","F","G","H","I","J","K","L","M","N","O","P",
       "Q","R","S","T","U","V","W","X","Y","Z","a","b","c","d","e","f",
       "g","h","i","j","k","l","m","n","o","p","q","r","s","t","u","v",
       "w","x","y","z","0","1","2","3","4","5","6","7","8","9","+","/" >>

IsB64Char(c) == \E i \in 1..Len(B64Alphabet) : B64Alphabet[i] = c
B64Value(c) == (CHOOSE i \in 1..Len(B64Alphabet) : B64Alphabet[i] = c) - 1

\* binascii.Error, as str() renders it
DecodeError(quad_pos) ==
    IF quad_pos = 1
    THEN [error |-> <<"Invalid base64-encoded string: number of data characters cannot be 1 more than a multiple of 4">>]
    ELSE [error |-> <<"Incorrect padding">>]

\* binascii.a2b_base64 in its default (non-strict) mode: characters outside
\* the alphabet are skipped, a complete run of padding ends the input, and
\* a quantum left open at the end is an error.
RECURSIVE A2B(_, _, _, _, _, _)
A2B(s, i, quad_pos, leftchar, pads, out) ==
    IF i > Len(s)
    THEN IF quad_pos # 0 THEN DecodeError(quad_pos) ELSE [bytes |-> out]
    ELSE IF s[i] = "="
    THEN IF quad_pos >= 2 /\ quad_pos + pads + 1 >= 4
         THEN [bytes |-> out]
         ELSE A2B(s, i + 1, quad_pos, leftchar,
                  IF quad_pos >= 2 THEN pads + 1 ELSE pads, out)
    ELSE IF ~IsB64Char(s[i])
    THEN A2B(s, i + 1, quad_pos, leftchar, pads, out)
    ELSE LET c == B64Value(s[i]) IN
         CASE quad_pos = 0 -> A2B(s, i + 1, 1, c, 0, out)
           [] quad_pos = 1 ->
                A2B(s, i + 1, 2, c % 16, 0,
                    Append(out, (leftchar * 4) + (c \div 16)))
           [] quad_pos = 2 ->
                A2B(s, i + 1, 3, c % 4, 0,
                    Append(out, (leftchar * 16) + (c \div 4)))
           [] quad_pos = 3 ->
                A2B(s, i + 1, 0, 0, 0, Append(out, (leftchar * 64) + c))

\* base64.b64decode(data)
b64decode(s) == A2B(s, 1, 0, 0, 0, <<>>)

\* base64.b64encode(bytes).decode('utf-8')
RECURSIVE b64encode(_)
b64encode(b) ==
    IF Len(b) = 0 THEN <<>>
    ELSE IF Len(b) = 1
    THEN << B64Alphabet[(b[1] \div 4) + 1],
            B64Alphabet[((b[1] % 4) * 16) + 1], "=", "=" >>
    ELSE IF Len(b) = 2
    THEN << B64Alphabet[(b[1] \div 4) + 1],
            B64Alphabet[((b[1] % 4) * 16) + (b[2] \div 16) + 1],
            B64Alphabet[((b[2] % 16) * 4) + 1], "=" >>
    ELSE << B64Alphabet[(b[1] \div 4) + 1],
            B64Alphabet[((b[1] % 4) * 16) + (b[2] \div 16) + 1],
            B64Alphabet[((b[2] % 16) * 4) + (b[3] \div 64) + 1],
            B64Alphabet[(b[3] % 64) + 1] >>
         \o b64encode(SubSeq(b, 4, Len(b)))

(***************************************************************************)
(* Configuration and the file helpers.                                     *)
(***************************************************************************)
INPUT_DIR == "/content/ComfyUI/input"
OUTPUT_DIR == "/content/ComfyUI/output"

\* os.path.join(dir, name) and os.path.basename(path)
PathJoin(dir, name) == [dir |-> dir, name |-> name]
Basename(path) == path.name

NoFile == [absent |-> TRUE]

\* str.startswith(prefix)
StartsWith(s, prefix) ==
    Len(s) >= Len(prefix) /\ SubSeq(s, 1, Len(prefix)) = prefix

\* ',' in data
Contains(s, c) == \E i \in 1..Len(s) : s[i] = c

\* data.split(sep, 1): at most two parts, cut at the first sep
RECURSIVE SplitOnce(_, _)
SplitOnce(s, sep) ==
    IF s = <<>> THEN << <<>> >>
    ELSE IF Head(s) = sep THEN << <<>>, Tail(s) >>
    ELSE LET r == SplitOnce(Tail(s), sep)
         IN  << <<Head(s)>> \o r[1] >> \o Tail(r)

\* What the remote end of a URL serves.
RemoteContents == { <<7>> }

\* urllib.request.urlretrieve(url, output_path): the bytes fetched, or the
\* exception raised.  urllib opens only URLs that carry a scheme it knows;
\* any other string is rejected before a connection is made.
UrlRetrieve(url) ==
    IF StartsWith(url, <<"h","t","t","p",":","/","/">>)
       \/ StartsWith(url, <<"h","t","t","p","s",":","/","/">>)
    THEN { [bytes |-> c] : c \in RemoteContents }
         \cup { [error |-> <<"<urlopen error>">>] }
    ELSE { [error |-> <<"unknown url type">>] }

\* download_file(url, output_path): what ends up in the file, or the error
download_file(url) == UrlRetrieve(url)

\* Variant: the data URI prefix is not removed before decoding.
save_base64_file_keep_prefix(data) == b64decode(data)

\* save_base64_file(data, output_path): the bytes written, or the error
save_base64_file(data) ==
    b64decode(IF Contains(data, ",") THEN SplitOnce(data, ",")[2] ELSE data)

\* Variant: the padding characters are dropped from the encoding.
file_to_base64_unpadded(bytes) == SelectSeq(b64encode(bytes), LAMBDA c : c # "=")

\* file_to_base64(file_path) of a file holding `bytes`
file_to_base64(bytes) == b64encode(bytes)

(***************************************************************************)
(* The job graph.                                                          *)
(***************************************************************************)
get_liveportrait_workflow(source_image_path, driving_video_path, audio_path, kwargs) ==
    [ n1 |-> [ class_type |-> "DownloadAndLoadLivePortraitModels",
               inputs |-> [ precision |-> "auto", mode |-> "human" ] ],
      n2 |-> [ class_type |-> "LivePortraitLoadCropper",
               inputs |-> [ onnx_device |-> "CUDA",
                            keep_model_loaded |-> B(TRUE),
                            detection_threshold |-> "0.5" ] ],
      n3 |-> [ class_type |-> "LoadImage",
               inputs |-> [ image |-> Basename(source_image_path) ] ],
      n4 |-> [ class_type |-> "VHS_LoadVideo",
               inputs |-> [ video |-> Basename(driving_video_path),
                            force_rate |-> N(0),
                            custom_width |-> N(0),
                            custom_height |-> N(0),
                            frame_load_cap |-> N(0),
                            skip_first_frames |-> N(0),
                            select_every_nth |-> N(1) ] ],
      n5 |-> [ class_type |-> "LivePortraitCropper",
               inputs |-> [ pipeline |-> <<"1", 0>>,
                            cropper |-> <<"2", 0>>,
                            source_image |-> <<"3", 0>>,
                            dsize |-> N(512),
                            scale |-> "2.3",
                            vx_ratio |-> "0.0",
                            vy_ratio |-> "-0.125",
                            face_index |-> N(0),
                            face_index_order |-> "large-small",
                            rotate |-> B(TRUE) ] ],
      n6 |-> [ class_type |-> "LivePortraitProcess",
               inputs |-> [ pipeline |-> <<"1", 0>>,
                            crop_info |-> <<"5", 1>>,
                            source_image |-> <<"3", 0>>,
                            driving_images |-> <<"4", 0>>,
                            lip_zero |-> B(FALSE),
                            lip_zero_threshold |-> "0.03",
                            stitching |-> B(TRUE),
                            delta_multiplier |->
                                GetDefault(kwargs, "driving_multiplier", N(1)),
                            mismatch_method |-> "constant",
                            relative_motion_mode |->
                                GetDefault(kwargs, "relative_motion_mode",
                                           S("relative")),
                            driving_smooth_observation_variance |-> "3e-6",
                            expression_friendly |-> B(FALSE),
                            expression_friendly_multiplier |-> "1.0" ] ],
      n7 |-> [ class_type |-> "VHS_VideoCombine",
               inputs |-> [ images |-> <<"6", 0>>,
                            frame_rate |-> N(25),
                            loop_count |-> N(0),
                            filename_prefix |-> "liveportrait_output",
                            format |-> "video/h264-mp4",
                            pingpong |-> B(FALSE),
                            save_output |-> B(TRUE) ] ] ]

\* The keyword arguments handler passes to get_liveportrait_workflow.
WorkflowKwargs(job_input) ==
    [ flag_relative      |-> GetDefault(job_input, "flag_relative", B(TRUE)),
      flag_do_crop       |-> GetDefault(job_input, "flag_do_crop", B(TRUE)),
      flag_pasteback     |-> GetDefault(job_input, "flag_pasteback", B(TRUE)),
      driving_smooth     |-> GetDefault(job_input, "driving_smooth", B(TRUE)),
      driving_multiplier |-> GetDefault(job_input, "driving_multiplier", N(1)) ]

\* The graph handler builds for a job input once the files are staged.
HandlerWorkflow(job_input) ==
    get_liveportrait_workflow(
        PathJoin(INPUT_DIR, "source.png"),
        PathJoin(INPUT_DIR, "driving.mp4"),
        IF Truthy(PyOr(Get(job_input, "audio"), Get(job_input, "audio_url")))
        THEN PathJoin(INPUT_DIR, "audio.wav") ELSE None,
        WorkflowKwargs(job_input))

(***************************************************************************)
(* The output directory and the search for the output video.               *)
(***************************************************************************)
\* A file name is its stem, cut where a glob's * can match, and its suffix
\* (pathlib's Path.suffix: the last dotted part, "" when there is none).
FileName(stem, suffix) == [stem |-> stem, suffix |-> suffix]

OutputNames ==
    { FileName(<<"liveportrait_output", "_00001">>, ".mp4"),
      FileName(<<"liveportrait_output", "_00002">>, ".mp4"),
      FileName(<<"AnimateDiff", "_00001">>, ".mp4"),
      FileName(<<"clip">>, ".MOV"),
      FileName(<<"liveportrait_output", "_00001">>, ".png") }

\* str.lower() on the suffixes that occur
Lower(suffix) ==
    CASE suffix = ".MOV" -> ".mov"
      [] suffix = ".MP4" -> ".mp4"
      [] OTHER -> suffix

\* Path(OUTPUT_DIR).glob("liveportrait_output*.mp4")
GlobLivePortrait(dir) ==
    { f \in dir : f.name.stem[1] = "liveportrait_output"
                  /\ f.name.suffix = ".mp4" }

\* Path(OUTPUT_DIR).glob("*.mp4")
GlobMp4(dir) == { f \in dir : f.name.suffix = ".mp4" }

\* Path(OUTPUT_DIR).glob("*.*") filtered by the lower-cased suffix
GlobAnyVideo(dir) ==
    { f \in { g \in dir : g.name.suffix # "" } :
          Lower(f.name.suffix) \in {".mp4", ".webm", ".avi", ".mov"} }

\* Variant: the three patterns are searched together, without priority.
FindOutputFilesUnordered(dir) ==
    GlobLivePortrait(dir) \cup GlobMp4(dir) \cup GlobAnyVideo(dir)

\* handler's output_files after the three attempts
FindOutputFiles(dir) ==
    IF GlobLivePortrait(dir) # {} THEN GlobLivePortrait(dir)
    ELSE IF GlobMp4(dir) # {} THEN GlobMp4(dir)
    ELSE GlobAnyVideo(dir)

\* Variant: os.path.getmtime(f)
getmtime(f) == f.mtime

\* os.path.getctime(f)
getctime(f) == f.ctime

\* max(output_files, key=os.path.getctime): a file no other file beats; on
\* a tie the directory's listing order decides, which the code does not
\* control.
MostRecent(files) ==
    { f \in files : \A g \in files : getctime(g) <= getctime(f) }

\* The bytes the engine writes into an output file.
FileBytes(job, stamp) == <<job, stamp>>

(***************************************************************************)
(* The engine's answers.                                                   *)
(***************************************************************************)
NoGraph == [none |-> TRUE]
NoChoice == [none |-> TRUE]
NoResult == [none |-> TRUE]
NoException == [none |-> TRUE]
NoPoll == [none |-> TRUE]
NoAnswer == [none |-> TRUE]
NoJob == [id |-> 0, status |-> "none", writes |-> 0]

max_wait == 300
poll_interval == 2

\* Seconds a GET /history request may take to be answered.
PollDurations == {0, 2}

\* POST /prompt: a response (status, prompt_id with 0 for none or empty) or
\* the exception requests raises when no response arrives.
SubmitAnswers(id) ==
    { [status |-> 200, prompt_id |-> id],
      [status |-> 200, prompt_id |-> 0],
      [status |-> 500, prompt_id |-> 0],
      [status |-> 500, prompt_id |-> id],
      [error |-> <<"ConnectionError">>] }

\* GET /history/{id}: a response (status, the ids its body holds) or the
\* exception requests raises when no response arrives.
HistoryAnswers(id) ==
    { [status |-> 200, ids |-> history \cap {id}],
      [status |-> 500, ids |-> {}],
      [error |-> <<"ConnectionError">>] }

(***************************************************************************)
(* The events the worker is given.                                         *)
(***************************************************************************)
HTTP_URL  == <<"h","t","t","p",":","/","/","u">>
FTP_URL   == <<"f","t","p",":","/","/","a","b","c">>
B64_PLAIN == <<"A","Q","=","=">>
DATA_URI  == <<"d","a","t","a",":",",","A","g","=","=">>
TWO_COMMA == <<"x",",","A","w","=","=",",","B","A","=","=">>
HTTP_B64  == <<"h","t","t","p">>
BAD_B64   == <<"A">>

EmptyDict == [k \in {} |-> None]

BaseInput == [source_image |-> S(B64_PLAIN), driving_video_url |-> S(HTTP_URL)]

\* d with key k set to v
With(d, k, v) == [x \in DOMAIN d \cup {k} |-> IF x = k THEN v ELSE d[x]]

\* Inputs whose source image takes each form; they name no driving video.
SourceInputs ==
    { [source_image |-> v] :
        v \in { S(B64_PLAIN), S(DATA_URI), S(TWO_COMMA), S(HTTP_URL),
                S(FTP_URL), S(HTTP_B64), S(BAD_B64), N(5) } }
    \cup { [source_image_url |-> S(HTTP_URL)],
           [source_image |-> S(<<>>), source_image_url |-> S(DATA_URI)],
           [source_image |-> S(B64_PLAIN), source_image_url |-> S(HTTP_URL)] }

\* Inputs without a source image.
NoSourceInputs ==
    { EmptyDict,
      [source_image |-> S(<<>>)],
      [driving_video_url |-> S(HTTP_URL)],
      [source_image |-> S(<<>>), driving_video |-> S(B64_PLAIN),
       audio |-> S(B64_PLAIN)] }

\* Inputs whose driving video takes each form; their audio cannot be decoded.
DrivingInputs ==
    { [source_image |-> S(B64_PLAIN), driving_video |-> v, audio |-> S(BAD_B64)] :
        v \in { S(TWO_COMMA), S(FTP_URL), S(HTTP_URL), N(5) } }
    \cup { [source_image |-> S(B64_PLAIN), driving_video |-> S(<<>>),
            driving_video_url |-> S(DATA_URI), audio_url |-> S(HTTP_B64)] }

\* Complete inputs, with and without audio.
CompleteInputs ==
    { BaseInput,
      With(BaseInput, "audio", S(DATA_URI)) }

Events ==
    { [id |-> "job", input |-> D(d)] :
        d \in SourceInputs \cup NoSourceInputs \cup DrivingInputs
              \cup CompleteInputs }
    \cup { [id |-> "job"],
           [id |-> "job", input |-> N(5)] }

(***************************************************************************)
(* handler                                                                 *)
(***************************************************************************)
\* job_input = event.get("input", {})
JobInput == IF "input" \in DOMAIN event THEN event.input ELSE D(EmptyDict)

\* Variant: no except clause; the exception leaves handler.
Propagate(e) ==
    /\ raised' = e
    /\ pc' = "crashed"
    /\ UNCHANGED result

\* except Exception as e: ... return {"error": str(e)}
ExceptClause(e) ==
    /\ raised' = e
    /\ result' = [error |-> e.error]
    /\ pc' = "done"

\* return value
Return(value) ==
    /\ result' = value
    /\ pc' = "done"
    /\ UNCHANGED raised

\* The worker calls handler(event).
Receive(ev) ==
    /\ pc \in {"idle", "done"}
    /\ invocation < MaxInvocations
    /\ event' = ev
    /\ invocation' = invocation + 1
    /\ pc' = "source"
    /\ prompt_id' = 0
    /\ elapsed' = 0
    /\ posted' = NoGraph
    /\ polled' = FALSE
    /\ staged' = {}
    /\ submitted' = NoAnswer
    /\ lastPoll' = NoPoll
    /\ looked' = FALSE
    /\ output_file' = NoChoice
    /\ raised' = NoException
    /\ result' = NoResult
    /\ UNCHANGED <<inputDir, outputDir, fsclock, engineJob, history>>

\* if value.startswith("http"): download_file(value, path)
\* else: save_base64_file(value, path)
Resolve(value) ==
    IF StartsWith(value, <<"h","t","t","p">>)
    THEN download_file(value)
    ELSE { save_base64_file(value) }

\* Resolve a supplied value to the file `name` of INPUT_DIR, then go to `next`.
Stage(value, name, next) ==
    IF ~IsStr(value)
    THEN /\ ExceptClause([error |-> <<"object has no attribute 'startswith'">>])
         /\ UNCHANGED <<inputDir, staged>>
    ELSE \E o \in Resolve(value.str) :
            IF "error" \in DOMAIN o
            THEN /\ ExceptClause(o)
                 /\ UNCHANGED <<inputDir, staged>>
            ELSE /\ inputDir' = [inputDir EXCEPT ![name] = o]
                 /\ staged' = staged \cup {name}
                 /\ pc' = next
                 /\ UNCHANGED <<raised, result>>

\* Process source image
StageSource ==
    /\ pc = "source"
    /\ IF ~IsDict(JobInput)
       THEN /\ ExceptClause([error |-> <<"object has no attribute 'keys'">>])
            /\ UNCHANGED <<inputDir, staged>>
       ELSE LET source_image == PyOr(Get(JobInput.dict, "source_image"),
                                     Get(JobInput.dict, "source_image_url"))
            IN  IF ~Truthy(source_image)
                THEN /\ Return([error |->
                            <<"source_image or source_image_url is required">>])
                     /\ UNCHANGED <<inputDir, staged>>
                ELSE Stage(source_image, "source.png", "driving")
    /\ UNCHANGED <<event, outputDir, fsclock, invocation, prompt_id, elapsed,
                   engineJob, history, posted, polled, submitted, lastPoll,
                   looked, output_file>>

\* Variant: a missing driving video is skipped, as a missing audio is.
StageDrivingOptional ==
    /\ pc = "driving"
    /\ LET driving_video == PyOr(Get(JobInput.dict, "driving_video"),
                                 Get(JobInput.dict, "driving_video_url"))
       IN  IF ~Truthy(driving_video)
           THEN /\ pc' = "audio"
                /\ UNCHANGED <<inputDir, staged, raised, result>>
           ELSE Stage(driving_video, "driving.mp4", "audio")
    /\ UNCHANGED <<event, outputDir, fsclock, invocation, prompt_id, elapsed,
                   engineJob, history, posted, polled, submitted, lastPoll,
                   looked, output_file>>

\* Process driving video
StageDriving ==
    /\ pc = "driving"
    /\ LET driving_video == PyOr(Get(JobInput.dict, "driving_video"),
                                 Get(JobInput.dict, "driving_video_url"))
       IN  IF ~Truthy(driving_video)
           THEN /\ Return([error |->
                       <<"driving_video or driving_video_url is required">>])
                /\ UNCHANGED <<inputDir, staged>>
           ELSE Stage(driving_video, "driving.mp4", "audio")
    /\ UNCHANGED <<event, outputDir, fsclock, invocation, prompt_id, elapsed,
                   engineJob, history, posted, polled, submitted, lastPoll,
                   looked, output_file>>

\* Process optional audio
StageAudio ==
    /\ pc = "audio"
    /\ LET audio == PyOr(Get(JobInput.dict, "audio"),
                         Get(JobInput.dict, "audio_url"))
       IN  IF ~Truthy(audio)
           THEN /\ pc' = "submit"
                /\ UNCHANGED <<inputDir, staged, raised, result>>
           ELSE Stage(audio, "audio.wav", "submit")
    /\ UNCHANGED <<event, outputDir, fsclock, invocation, prompt_id, elapsed,
                   engineJob, history, posted, polled, submitted, lastPoll,
                   looked, output_file>>

(***************************************************************************)
(* run_comfyui_workflow                                                    *)
(***************************************************************************)
\* Variant: the prompt id of a 200 answer is used without testing it.
QueuePromptUnchecked(answer) ==
    IF "error" \in DOMAIN answer THEN answer
    ELSE IF answer.status # 200
    THEN [error |-> <<"Failed to queue prompt: ">>]
    ELSE [prompt_id |-> answer.prompt_id]

\* What the code makes of the answer to POST /prompt: the prompt id to poll
\* for, or the exception it raises.
QueuePrompt(answer) ==
    IF "error" \in DOMAIN answer THEN answer
    ELSE IF answer.status # 200
    THEN [error |-> <<"Failed to queue prompt: ">>]
    ELSE IF answer.prompt_id = 0
    THEN [error |-> <<"No prompt_id in response: ">>]
    ELSE [prompt_id |-> answer.prompt_id]

\* Generate workflow; queue the prompt.  The engine starts the prompt it
\* answers with an id.
Submit ==
    /\ pc = "submit"
    /\ posted' = HandlerWorkflow(JobInput.dict)
    /\ \E answer \in SubmitAnswers(invocation) :
          /\ submitted' = answer
          /\ engineJob' = IF "error" \notin DOMAIN answer /\ answer.status = 200
                             /\ answer.prompt_id # 0
                          THEN [id |-> answer.prompt_id, status |-> "running",
                                writes |-> 0]
                          ELSE engineJob
          /\ LET q == QueuePrompt(answer)
             IN  IF "error" \in DOMAIN q
                 THEN ExceptClause(q) /\ UNCHANGED <<prompt_id, elapsed>>
                 ELSE /\ prompt_id' = q.prompt_id
                      /\ elapsed' = 0
                      /\ pc' = "poll"
                      /\ UNCHANGED <<raised, result>>
    /\ UNCHANGED <<event, inputDir, outputDir, fsclock, invocation, history,
                   polled, staged, lastPoll, looked, output_file>>

\* Variant: any 200 answer counts as completion.
CompletedAnyBody(answer, id) == answer.status = 200

\* if history_response.status_code == 200 and prompt_id in history
Completed(answer, id) == answer.status = 200 /\ id \in answer.ids

\* One turn of the poll loop: the deadline test, the GET, and either the
\* return of history[prompt_id] or time.sleep(2).
Poll ==
    /\ pc = "poll"
    /\ elapsed < max_wait
    /\ polled' = TRUE
    /\ \E answer \in HistoryAnswers(prompt_id), d \in PollDurations :
          /\ lastPoll' = answer
          /\ IF "error" \in DOMAIN answer
             THEN ExceptClause(answer) /\ elapsed' = elapsed + d
             ELSE IF Completed(answer, prompt_id)
             THEN /\ pc' = "collect"
                  /\ elapsed' = elapsed + d
                  /\ UNCHANGED <<raised, result>>
             ELSE /\ pc' = "poll"
                  /\ elapsed' = elapsed + d + poll_interval
                  /\ UNCHANGED <<raised, result>>
    /\ UNCHANGED <<event, inputDir, outputDir, fsclock, invocation, prompt_id,
                   engineJob, history, posted, staged, submitted, looked,
                   output_file>>

\* The loop condition fails: raise Exception("Workflow execution timed out")
Timeout ==
    /\ pc = "poll"
    /\ ~(elapsed < max_wait)
    /\ ExceptClause([error |-> <<"Workflow execution timed out">>])
    /\ UNCHANGED <<event, inputDir, outputDir, fsclock, invocation, prompt_id,
                   elapsed, engineJob, history, posted, polled, staged,
                   submitted, lastPoll, looked, output_file>>

(***************************************************************************)
(* The engine, a separate process.                                         *)
(***************************************************************************)
\* The engine writes (or moves into place, keeping an older modification
\* time) an output file of the prompt it is running.
EngineWrite ==
    /\ engineJob.status = "running"
    /\ engineJob.writes < MaxWrites
    /\ \E n \in OutputNames, m \in {0, fsclock + 1} :
          /\ fsclock' = fsclock + 1
          /\ outputDir' = { f \in outputDir : f.name # n }
                          \cup { [name |-> n, ctime |-> fsclock', mtime |-> m,
                                  job |-> engineJob.id] }
    /\ engineJob' = [engineJob EXCEPT !.writes = @ + 1]
    /\ UNCHANGED <<pc, event, inputDir, invocation, prompt_id, elapsed,
                   history, posted, polled, staged, submitted, lastPoll,
                   looked, output_file, raised, result>>

\* The engine ends the prompt, with or without output, and records it.
EngineFinish ==
    /\ engineJob.status = "running"
    /\ engineJob' = [engineJob EXCEPT !.status = "finished"]
    /\ history' = history \cup {engineJob.id}
    /\ UNCHANGED <<pc, event, inputDir, outputDir, fsclock, invocation,
                   prompt_id, elapsed, posted, polled, staged, submitted,
                   lastPoll, looked, output_file, raised, result>>

(***************************************************************************)
(* handler, after run_comfyui_workflow has returned.                       *)
(***************************************************************************)
\* Find the output video, take the most recent one and return it as base64.
Collect ==
    /\ pc = "collect"
    /\ looked' = TRUE
    /\ LET output_files == FindOutputFiles(outputDir)
       IN  IF output_files = {}
           THEN /\ Return([error |-> <<"No output video generated",
                                       ". Files in output dir: ">>])
                /\ UNCHANGED output_file
           ELSE \E f \in MostRecent(output_files), readable \in BOOLEAN :
                   /\ output_file' = f
                   /\ IF readable
                      THEN Return([video_base64 |->
                                <<"data:video/mp4;base64,">>
                                \o file_to_base64(FileBytes(f.job, f.ctime))])
                      ELSE ExceptClause([error |-> <<"Permission denied">>])
    /\ UNCHANGED <<event, inputDir, outputDir, fsclock, invocation, prompt_id,
                   elapsed, engineJob, history, posted, polled, staged,
                   submitted, lastPoll>>

(***************************************************************************)
(* The specification.                                                      *)
(***************************************************************************)
Init ==
    /\ pc = "idle"
    /\ event = [id |-> "job"]
    /\ inputDir = [n \in {"source.png", "driving.mp4", "audio.wav"} |-> NoFile]
    /\ outputDir = {}
    /\ fsclock = 0
    /\ invocation = 0
    /\ prompt_id = 0
    /\ elapsed = 0
    /\ engineJob = NoJob
    /\ history = {}
    /\ posted = NoGraph
    /\ polled = FALSE
    /\ staged = {}
    /\ submitted = NoAnswer
    /\ lastPoll = NoPoll
    /\ looked = FALSE
    /\ output_file = NoChoice
    /\ raised = NoException
    /\ result = NoResult

Next ==
    \/ \E ev \in Events : Receive(ev)
    \/ StageSource
    \/ StageDriving
    \/ StageAudio
    \/ Submit
    \/ Poll
    \/ Timeout
    \/ Collect
    \/ EngineWrite
    \/ EngineFinish

Spec == Init /\ [][Next]_vars

(***************************************************************************)
(* run_comfyui_workflow on its own, from the moment the prompt id has been *)
(* obtained: the state handler is in after it has staged BaseInput and the *)
(* engine has accepted the prompt.  The worker keeps running, and every    *)
(* request it sends is answered or fails, so its steps are weakly fair;    *)
(* the engine owes no progress.                                            *)
(***************************************************************************)
InitPoll ==
    /\ pc = "poll"
    /\ event = [id |-> "job", input |-> D(BaseInput)]
    /\ inputDir = [n \in {"source.png", "driving.mp4", "audio.wav"} |->
                     CASE n = "source.png" -> [bytes |-> <<1>>]
                       [] n = "driving.mp4" -> [bytes |-> <<7>>]
                       [] OTHER -> NoFile]
    /\ outputDir = {}
    /\ fsclock = 0
    /\ invocation = 1
    /\ prompt_id = 1
    /\ elapsed = 0
    /\ engineJob = [id |-> 1, status |-> "running", writes |-> 0]
    /\ history = {}
    /\ posted = HandlerWorkflow(BaseInput)
    /\ polled = FALSE
    /\ staged = {"source.png", "driving.mp4"}
    /\ submitted = [status |-> 200, prompt_id |-> 1]
    /\ lastPoll = NoPoll
    /\ looked = FALSE
    /\ output_file = NoChoice
    /\ raised = NoException
    /\ result = NoResult

NextPoll ==
    \/ Poll
    \/ Timeout
    \/ Collect
    \/ EngineWrite
    \/ EngineFinish

SpecPoll ==
    InitPoll /\ [][NextPoll]_vars /\ WF_vars(Poll) /\ WF_vars(Timeout)
             /\ WF_vars(Collect)

(***************************************************************************)
(* Properties.                                                             *)
(***************************************************************************)
TimedOut == [error |-> <<"Workflow execution timed out">>]

\* A history answer with status 200 whose body holds the prompt id.
AnswerHasId(answer) ==
    /\ "status" \in DOMAIN answer
    /\ answer.status = 200
    /\ prompt_id \in answer.ids

\* The search pattern a file name falls under first (0: none), read off the
\* name itself.
PatternOf(f) ==
    IF f.name.suffix = ".mp4" /\ Head(f.name.stem) = "liveportrait_output"
    THEN 1
    ELSE IF f.name.suffix = ".mp4" THEN 2
    ELSE IF f.name.suffix \in { ".mp4", ".MP4", ".Mp4", ".webm", ".WEBM",
                                ".avi", ".AVI", ".mov", ".MOV", ".Mov" }
    THEN 3
    ELSE 0

\* The step in which handler searches OUTPUT_DIR and returns.
CollectStep == pc = "collect" /\ pc' = "done"

\* A step of the poll loop itself (the engine's steps leave both unchanged).
LoopStep == pc = "poll" /\ (pc' # "poll" \/ elapsed' # elapsed)

\* C1: handler never raises: whatever step fails, the exception is caught
\* and handler returns a dict whose "error" is the exception's text; every
\* return carries "error" or "video_base64".
C1_HandlerNeverRaises ==
    /\ pc \in {"idle", "source", "driving", "audio", "submit", "poll",
               "collect", "done"}
    /\ raised # NoException =>
          pc = "done" /\ result = [error |-> raised.error]
    /\ pc = "done" =>
          "error" \in DOMAIN result \/ "video_base64" \in DOMAIN result

C1_Witness ==
    /\ pc = "done"
    /\ raised = TimedOut
    /\ result = [error |-> <<"Workflow execution timed out">>]

\* run_comfyui_workflow has ended after obtaining a prompt id, by returning
\* (handler went on to the output search) or by raising.
LoopEnded == prompt_id # 0 /\ pc \in {"collect", "done"}
LoopReturned == pc = "collect" \/ looked

C3_PatternPriority ==
    [][CollectStep =>
         /\ (\E g \in outputDir : PatternOf(g) # 0) => output_file' # NoChoice
         /\ output_file' # NoChoice =>
               /\ output_file' \in outputDir
               /\ PatternOf(output_file') # 0
               /\ \A g \in outputDir :
                     PatternOf(g) # 0 => PatternOf(output_file') <= PatternOf(g)]_vars

C3_Witness ==
    /\ pc = "done"
    /\ "video_base64" \in DOMAIN result
    /\ PatternOf(output_file) = 1
    /\ \E g \in outputDir : PatternOf(g) = 3 /\ g.ctime > output_file.ctime

\* The files matching the pattern the chosen file was found under.
WinningMatches(f) == { g \in outputDir : PatternOf(g) = PatternOf(f) }

\* C4 as stated: among the files matching the winning pattern the returned
\* one has the greatest modification time.
C4_NewestByMtime ==
    [][CollectStep /\ output_file' # NoChoice =>
         \A g \in WinningMatches(output_file') : g.mtime <= output_file'.mtime]_vars

\* C4 as amended: among the files matching the winning pattern the returned
\* one has the greatest os.path.getctime value (on Linux the time of the
\* last change of the file's inode), not the greatest modification time.
C4_NewestByCtime ==
    [][CollectStep /\ output_file' # NoChoice =>
         \A g \in WinningMatches(output_file') : g.ctime <= output_file'.ctime]_vars

C4_Witness ==
    /\ pc = "done"
    /\ "video_base64" \in DOMAIN result
    /\ \E g \in WinningMatches(output_file) :
          g # output_file /\ g.ctime < output_file.ctime
          /\ g.mtime > output_file.mtime

\* C5: every return carries exactly one of "video_base64" and "error"; a
\* video is returned only after a poll found the prompt id in the engine's
\* history and a matching file was chosen, and is the data-URI prefix
\* followed by the base64 of that file; when the search finds no matching
\* file the result is an error beginning "No output video generated".
C5_ResultShape ==
    /\ [](pc = "done" =>
            /\ Cardinality(DOMAIN result \cap {"video_base64", "error"}) = 1
            /\ DOMAIN result \subseteq {"video_base64", "error"}
            /\ "video_base64" \in DOMAIN result =>
                  /\ AnswerHasId(lastPoll)
                  /\ prompt_id \in history
                  /\ looked
                  /\ output_file # NoChoice
                  /\ PatternOf(output_file) # 0
                  /\ Head(result.video_base64) = "data:video/mp4;base64,"
                  /\ b64decode(Tail(result.video_base64))
                       = [bytes |-> FileBytes(output_file.job, output_file.ctime)])
    /\ [][(CollectStep /\ \A g \in outputDir : PatternOf(g) = 0) =>
            /\ DOMAIN result' = {"error"}
            /\ Head(result'.error) = "No output video generated"]_vars

C5_Witness ==
    /\ pc = "done"
    /\ "video_base64" \in DOMAIN result
    /\ output_file \in outputDir

\* The parameters a job input may override, their values and defaults.
FlagParams == {"flag_relative", "flag_do_crop", "flag_pasteback", "driving_smooth"}
ParamValues(k) == IF k \in FlagParams THEN {B(TRUE), B(FALSE)} ELSE {N(1), N(2)}
ParamDefault(k) == IF k \in FlagParams THEN B(TRUE) ELSE N(1)
ParamOf(d, k) == IF k \in DOMAIN d THEN d[k] ELSE ParamDefault(k)

\* C6: the submitted graph reflects each overridable parameter: an input
\* that differs from the submitted one in the value of one parameter would
\* have produced a different graph, and supplying the default of an omitted
\* parameter the same graph.
C6_GraphReflectsParams ==
    (posted # NoGraph /\ IsDict(JobInput)) =>
        \A k \in FlagParams \cup {"driving_multiplier"} :
           \A v \in ParamValues(k) :
              /\ v # ParamOf(JobInput.dict, k) =>
                    HandlerWorkflow(With(JobInput.dict, k, v)) # posted
              /\ (k \notin DOMAIN JobInput.dict /\ v = ParamDefault(k)) =>
                    HandlerWorkflow(With(JobInput.dict, k, v)) = posted

\* The value supplied under a key or, when that is absent or empty, under
\* its _url twin.
Supplied(d, k1, k2) ==
    IF k1 \in DOMAIN d /\ d[k1] # S(<<>>) THEN d[k1]
    ELSE IF k2 \in DOMAIN d THEN d[k2]
    ELSE S(<<>>)

\* A payload without its format prefix: what follows the first comma.
AfterFirstComma(v) ==
    IF \E i \in 1..Len(v) : v[i] = ","
    THEN LET i == CHOOSE i \in 1..Len(v) :
                     v[i] = "," /\ \A j \in 1..(i - 1) : v[j] # ","
         IN  SubSeq(v, i + 1, Len(v))
    ELSE v

\* The outcome of resolving value v to file `name`: fetched, or decoded
\* from base64 after the prefix is removed.
ResolvedAs(v, name, fetched) ==
    IF fetched
    THEN \/ /\ name \in staged'
            /\ \E c \in RemoteContents :
                  inputDir' = [inputDir EXCEPT ![name] = [bytes |-> c]]
         \/ /\ pc' = "done"
            /\ raised'.error \in { <<"<urlopen error>">>, <<"unknown url type">> }
            /\ inputDir' = inputDir
    ELSE LET decoded == b64decode(AfterFirstComma(v))
         IN  IF "error" \in DOMAIN decoded
             THEN pc' = "done" /\ raised' = decoded /\ inputDir' = inputDir
             ELSE /\ name \in staged'
                  /\ inputDir' = [inputDir EXCEPT ![name] = decoded]

\* The three staging steps and the value, file and keys of each.
Stages ==
    { [at |-> "source", k1 |-> "source_image", k2 |-> "source_image_url",
       name |-> "source.png"],
      [at |-> "driving", k1 |-> "driving_video", k2 |-> "driving_video_url",
       name |-> "driving.mp4"],
      [at |-> "audio", k1 |-> "audio", k2 |-> "audio_url",
       name |-> "audio.wav"] }

\* A value that is a URL: a scheme followed by ://
IsUrl(v) ==
    \E i \in 2..Len(v) : i + 2 <= Len(v) /\ SubSeq(v, i, i + 2) = <<":", "/", "/">>

\* A value that starts with the four characters http
StartsHttp(v) ==
    Len(v) >= 4 /\ v[1] = "h" /\ v[2] = "t" /\ v[3] = "t" /\ v[4] = "p"

\* C7 as stated: a supplied value that is a URL is fetched, every other
\* value is base64-decoded after its prefix, up to the first comma, is
\* removed; the bytes go to source.png, driving.mp4 or audio.wav.
C7_UrlOrInline ==
    [][\A st \in Stages :
         (pc = st.at /\ pc' # st.at /\ IsDict(JobInput)) =>
            LET v == Supplied(JobInput.dict, st.k1, st.k2)
            IN  (IsStr(v) /\ v.str # <<>>) =>
                   ResolvedAs(v.str, st.name, IsUrl(v.str))]_vars

\* C7 as amended: a supplied value that starts with the characters "http"
\* is fetched (whether or not it is a well-formed URL, and no URL of
\* another scheme or spelling is), every other value is base64-decoded
\* after its prefix, up to the first comma, is removed; the bytes go to
\* source.png, driving.mp4 or audio.wav.
C7_HttpPrefixOrInline ==
    [][\A st \in Stages :
         (pc = st.at /\ pc' # st.at /\ IsDict(JobInput)) =>
            LET v == Supplied(JobInput.dict, st.k1, st.k2)
            IN  (IsStr(v) /\ v.str # <<>>) =>
                   ResolvedAs(v.str, st.name, StartsHttp(v.str))]_vars

C7_Witness ==
    /\ pc = "submit"
    /\ event = [id |-> "job", input |-> D(With(BaseInput, "audio", S(DATA_URI)))]
    /\ staged = {"source.png", "driving.mp4", "audio.wav"}
    /\ inputDir["source.png"] = [bytes |-> <<1>>]
    /\ inputDir["driving.mp4"] = [bytes |-> <<7>>]
    /\ inputDir["audio.wav"] = [bytes |-> <<2>>]

\* Neither key is supplied, or what is supplied is empty.
Missing(d, k1, k2) ==
    \A k \in {k1, k2} : k \notin DOMAIN d \/ d[k] = S(<<>>)

SourceRequired == [error |-> <<"source_image or source_image_url is required">>]
DrivingRequired == [error |-> <<"driving_video or driving_video_url is required">>]

\* What C8 says of every input, apart from the case of a missing driving
\* video: the graph is posted only after both files are staged; without a
\* source image handler returns its error having written no file and sent
\* the engine nothing; a missing audio alone never stops handler.
C8_Common(d) ==
    /\ posted # NoGraph => {"source.png", "driving.mp4"} \subseteq staged
    /\ (pc = "done" /\ Missing(d, "source_image", "source_image_url")) =>
          /\ result = SourceRequired
          /\ staged = {}
          /\ posted = NoGraph /\ submitted = NoAnswer /\ ~polled
    /\ (pc = "done" /\ Missing(d, "audio", "audio_url")
          /\ {"source.png", "driving.mp4"} \subseteq staged) =>
          posted # NoGraph

\* C8 as stated: ... and when only the driving video is missing handler
\* returns "driving_video or driving_video_url is required", having sent
\* the engine nothing.
C8_StagedBeforeSubmit ==
    IsDict(JobInput) =>
       /\ C8_Common(JobInput.dict)
       /\ (pc = "done"
             /\ ~Missing(JobInput.dict, "source_image", "source_image_url")
             /\ Missing(JobInput.dict, "driving_video", "driving_video_url")) =>
             /\ result = DrivingRequired
             /\ posted = NoGraph /\ submitted = NoAnswer /\ ~polled

\* C8 as amended: ... and when the source image has been staged and only
\* the driving video is missing handler returns "driving_video or
\* driving_video_url is required"; when the source image is supplied but
\* cannot be staged handler returns that failure instead; in both cases
\* the engine is sent nothing.
C8_StagedBeforeSubmitAmended ==
    IsDict(JobInput) =>
       /\ C8_Common(JobInput.dict)
       /\ (pc = "done"
             /\ ~Missing(JobInput.dict, "source_image", "source_image_url")
             /\ Missing(JobInput.dict, "driving_video", "driving_video_url")) =>
             /\ IF "source.png" \in staged
                THEN result = DrivingRequired
                ELSE raised # NoException /\ result = [error |-> raised.error]
             /\ posted = NoGraph /\ submitted = NoAnswer /\ ~polled

C8_Witness ==
    /\ pc = "done"
    /\ IsDict(JobInput)
    /\ Missing(JobInput.dict, "driving_video", "driving_video_url")
    /\ "source.png" \in staged
    /\ result = DrivingRequired
    /\ posted = NoGraph

\* C9: when POST /prompt is answered with a status other than 200, or with
\* 200 but no prompt id, run_comfyui_workflow fails at once: no history
\* poll is sent, and handler returns an error without searching the output
\* directory.
C9_RejectedSubmit ==
    ("status" \in DOMAIN submitted
        /\ (submitted.status # 200 \/ submitted.prompt_id = 0)) =>
       /\ pc = "done"
       /\ ~polled
       /\ ~looked
       /\ output_file = NoChoice
       /\ DOMAIN result = {"error"}
       /\ raised # NoException

C9_Witness ==
    /\ submitted = [status |-> 200, prompt_id |-> 0]
    /\ pc = "done"
    /\ result = [error |-> <<"No prompt_id in response: ">>]

\* C10: the video of a successful response is a file the engine wrote for
\* this invocation's own prompt, never one left by an earlier invocation.
C10_OwnOutput ==
    (pc = "done" /\ "video_base64" \in DOMAIN result) =>
        output_file.job = prompt_id

====
